---- MODULE Spec2Model ----
(***************************************************************************)
(* Clipbuddy (Smart Clip): the clipboard history list of SmartClipUI, the  *)
(* global hotkey hooks, the posted-callback queue between the keyboard     *)
(* hook thread and the Qt event loop, and the ClipboardOverlay picker.     *)
(*                                                                         *)
(* A text is a sequence of one-character strings, so that str.lower(),     *)
(* str.strip() and the substring test of the filter are computed, not      *)
(* assumed.  A hotkey string is a sequence of atoms ("Ctrl", " ", "+",     *)
(* "G", "None", ...), on which replace(" ", ""), lower() and split("+")    *)
(* are computed the same way.                                              *)
(***************************************************************************)
EXTENDS Integers, Sequences, FiniteSets, TLC

-----------------------------------------------------------------------------
(* Bounds of the model *)

\* largest value the settings dialog's stack-size spin box takes in the model
MaxStack ==
    3

\* cap on undelivered clipboard dataChanged notifications
MaxPending ==
    1

\* cap on callbacks posted by the hook thread and not yet run
MaxPosted ==
    2

\* cap on pending simulate_paste timers
MaxPaste ==
    1

-----------------------------------------------------------------------------
(* Strings *)

\* str.lower() on one character / one atom of a hotkey string
LowerChar(c) ==
    CASE c = "A" -> "a"
      [] c = "B" -> "b"
      [] c = "C" -> "c"
      [] c = "G" -> "g"
      [] c = "T" -> "t"
      [] c = "Ctrl" -> "ctrl"
      [] c = "Shift" -> "shift"
      [] c = "None" -> "none"
      [] c = "Hyper" -> "hyper"
      [] OTHER -> c

\* str.lower()
Lower(s) ==
    [i \in 1..Len(s) |-> LowerChar(s[i])]

\* str.title() on one atom of a hotkey string (used for the dialog prefill)
TitleChar(c) ==
    CASE c = "g" -> "G"
      [] c = "t" -> "T"
      [] c = "ctrl" -> "Ctrl"
      [] c = "shift" -> "Shift"
      [] c = "none" -> "None"
      [] c = "hyper" -> "Hyper"
      [] OTHER -> c

\* whitespace characters, as str.strip() and str.replace(" ", "") see them
IsSpace(c) ==
    c = " "

RECURSIVE LStrip(_)
LStrip(s) ==
    IF s # <<>> /\ IsSpace(Head(s)) THEN LStrip(Tail(s)) ELSE s

RECURSIVE RStrip(_)
RStrip(s) ==
    IF s # <<>> /\ IsSpace(s[Len(s)]) THEN RStrip(SubSeq(s, 1, Len(s) - 1)) ELSE s

\* str.strip()
Strip(s) ==
    RStrip(LStrip(s))

\* `sub in s` for Python strings
Contains(s, sub) ==
    \E k \in 0..(Len(s) - Len(sub)) :
        \A j \in 1..Len(sub) : s[k + j] = sub[j]

\* s.replace(" ", "")
RECURSIVE RemoveSpaces(_)
RemoveSpaces(s) ==
    IF s = <<>> THEN <<>>
    ELSE IF Head(s) = " " THEN RemoveSpaces(Tail(s))
    ELSE <<Head(s)>> \o RemoveSpaces(Tail(s))

\* s.replace("+", " + ")
RECURSIVE SpacePlus(_)
SpacePlus(s) ==
    IF s = <<>> THEN <<>>
    ELSE IF Head(s) = "+" THEN <<" ", "+", " ">> \o SpacePlus(Tail(s))
    ELSE <<Head(s)>> \o SpacePlus(Tail(s))

\* s.split("+"): the list of the parts between the "+" atoms
RECURSIVE Split(_)
Split(s) ==
    IF \A i \in 1..Len(s) : s[i] # "+" THEN <<s>>
    ELSE LET p == CHOOSE i \in 1..Len(s) :
                      s[i] = "+" /\ \A j \in 1..(i - 1) : s[j] # "+"
         IN  <<SubSeq(s, 1, p - 1)>> \o Split(SubSeq(s, p + 1, Len(s)))

\* "+".join(parts)
RECURSIVE Join(_)
Join(parts) ==
    IF parts = <<>> THEN <<>>
    ELSE IF Len(parts) = 1 THEN parts[1]
    ELSE parts[1] \o <<"+">> \o Join(Tail(parts))

-----------------------------------------------------------------------------
(* The texts and filters of the model *)

\* clipboard texts that pass `text and text.strip()`
ValidTexts ==
    { <<"a">>, <<"A">>, <<"B", "c">> }

\* the empty text and a whitespace-only text
BlankTexts ==
    { <<>>, <<" ">> }

Texts ==
    ValidTexts \cup BlankTexts

\* what the user types into the overlay's search bar
Filters ==
    { <<>>, <<"a">>, <<"b", "C">>, <<"t">> }

\* duplicate-free sequences over S of length at most n
NoDup(seq) ==
    \A i, j \in 1..Len(seq) : i # j => seq[i] # seq[j]

SeqsUpTo(S, n) ==
    UNION { [1..k -> S] : k \in 0..n }

\* populate_dummy_data: the seed shown on first run (distinct texts; the
\* source lists nine, the model two)
DummyItems ==
    << <<"a">>, <<"B", "c">> >>

-----------------------------------------------------------------------------
(* State *)

VARIABLES
    list_widget,        \* SmartClipUI.list_widget: the history, index 1 = most recent
    max_stack_size,     \* SmartClipUI.max_stack_size
    data_file,          \* clipboard_history.json as last written (<<>> when absent)
    clipboard,          \* the text on the system clipboard
    dataChanged,        \* QClipboard.dataChanged notifications not yet delivered
    overlay,            \* SmartClipUI.overlay and the ClipboardOverlay's fields
    swap_hotkey,        \* SmartClipUI.swap_hotkey
    type_hotkey,        \* SmartClipUI.type_hotkey
    swap_modifier,      \* SmartClipUI.swap_modifier
    swap_key,           \* SmartClipUI.swap_key
    swap_hook,          \* handle of the swap hotkey (0 = None)
    type_hook,          \* handle of the type hotkey (0 = None)
    ctrl_release_hook,  \* handle of the release hook (0 = None)
    hooks,              \* what the keyboard library has registered
    held,               \* the modifier keys physically down
    running,            \* the process is alive (no exception has ended it)
    pressedOpen,        \* history: for each handle_swap_hotkey in posted, in
                        \* order, whether a picker was on screen when it was posted
    saveLog,            \* history of the saves: the list changed since the last
                        \* save that succeeded; a save failed since then
    posted,             \* QTimer.singleShot(0, f) callbacks not yet run, in order
    pasteTimers,        \* QTimer.singleShot(100, simulate_paste) timers pending
    sess,               \* history of the session last opened: state, clipboard
                        \* writes, pastes scheduled, a release run after its end
    relSincePress,      \* the watched modifier went up after the last swap press
    lastOp              \* history: the last operation on the history list

storeVars ==
    <<list_widget, max_stack_size, data_file, saveLog>>

clipVars ==
    <<clipboard, dataChanged>>

bindVars ==
    <<swap_hotkey, type_hotkey, swap_modifier, swap_key, swap_hook, type_hook,
      ctrl_release_hook, hooks>>

vars ==
    <<list_widget, max_stack_size, data_file, clipboard, dataChanged, overlay,
      swap_hotkey, type_hotkey, swap_modifier, swap_key, swap_hook, type_hook,
      ctrl_release_hook, hooks, held, running, pressedOpen, saveLog, posted, pasteTimers, sess,
      relSincePress, lastOp>>

-----------------------------------------------------------------------------
(* The history list: SmartClipUI.on_clipboard_changed and the storage *)

Min(a, b) ==
    IF a < b THEN a ELSE b

\* the test of on_clipboard_changed without its strip() half
IsPushableNoStrip(text) ==
    text # <<>>

\* `if text and text.strip()`
IsPushable(text) ==
    text # <<>> /\ Strip(text) # <<>>

\* on_clipboard_changed without its "already exists at top" return
AlreadyAtTopNever(list, text) ==
    FALSE

\* "Check if already exists at top"
AlreadyAtTop(list, text) ==
    Len(list) > 0 /\ list[1] = text

\* on_clipboard_changed without its "Remove duplicate" loop
RemoveDuplicateSkipped(list, text) ==
    list

\* "Remove duplicate if exists elsewhere": takeItem(i) at the first match, break
RemoveDuplicate(list, text) ==
    IF \E i \in 1..Len(list) : list[i] = text
    THEN LET i == CHOOSE k \in 1..Len(list) :
                      list[k] = text /\ \A j \in 1..(k - 1) : list[j] # text
         IN  SubSeq(list, 1, i - 1) \o SubSeq(list, i + 1, Len(list))
    ELSE list

\* "Add to top of list": insertItem(0, new_item)
InsertTop(list, text) ==
    <<text>> \o list

\* "Trim to max size": while count() > max_stack_size: takeItem(count() - 1)
RECURSIVE TrimToMax(_, _)
TrimToMax(list, max) ==
    IF Len(list) > max /\ Len(list) > 0
    THEN TrimToMax(SubSeq(list, 1, Len(list) - 1), max)
    ELSE list

\* the list after on_clipboard_changed has read `text` from the clipboard
Pushed(list, text, max) ==
    IF ~IsPushable(text) THEN list
    ELSE IF AlreadyAtTop(list, text) THEN list
    ELSE TrimToMax(InsertTop(RemoveDuplicate(list, text), text), max)

\* an on_clipboard_changed that saves only after inserting a text not in the list
PushSavesInsertOnly(list, text) ==
    IsPushable(text) /\ \A i \in 1..Len(list) : list[i] # text

\* on_clipboard_changed reaches its "Auto-save" line
PushSaves(list, text) ==
    IsPushable(text) /\ ~AlreadyAtTop(list, text)

\* which branch of on_clipboard_changed a text takes
PushKind(list, text) ==
    IF ~IsPushable(text) THEN "push_blank"
    ELSE IF AlreadyAtTop(list, text) THEN "push_top"
    ELSE IF \E i \in 1..Len(list) : list[i] = text THEN "push_promote"
    ELSE "push_insert"

\* ClipboardStorage.save_history: items[: self.max_size], written to the file
SavedHistory(items, max) ==
    SubSeq(items, 1, Min(max, Len(items)))

\* load_clipboard_history: the saved items, or the dummy data when there are none
LoadedHistory(saved) ==
    IF saved # <<>> THEN saved ELSE DummyItems

-----------------------------------------------------------------------------
(* Hotkeys: SmartClipUI.update_shortcuts and the keyboard library *)

\* `hotkey and hotkey.lower() != "none"`
IsBound(hotkey) ==
    hotkey # <<>> /\ Lower(hotkey) # <<"none">>

\* "Normalize format for keyboard library": replace(" ", "").lower()
Normalized(hotkey) ==
    Lower(RemoveSpaces(hotkey))

\* keyboard.remove_hotkey / keyboard.unhook of a handle
Unhooked(hs, handle) ==
    { h \in hs : h.id # handle }

\* the handle a new registration gets: the least id not in use
NewId(hs) ==
    CHOOSE n \in 1..(Cardinality(hs) + 1) :
        /\ \A h \in hs : h.id # n
        /\ \A m \in 1..(n - 1) : \E h \in hs : h.id = m

\* keyboard.add_hotkey(combo, callback)
WithHotkey(hs, combo, cb) ==
    hs \cup { [id |-> NewId(hs), kind |-> "hotkey", key |-> combo, cb |-> cb] }

\* keyboard.on_release_key(key, callback)
WithReleaseHook(hs, key, cb) ==
    hs \cup { [id |-> NewId(hs), kind |-> "release", key |-> key, cb |-> cb] }

\* parts[:-1] joined by "+", or "" for a combo of one part
ModifierOf(normalized) ==
    LET parts == Split(normalized)
    IN  IF Len(parts) >= 2 THEN Join(SubSeq(parts, 1, Len(parts) - 1)) ELSE <<>>

\* parts[-1], or the whole combo when it has one part
KeyOf(normalized) ==
    LET parts == Split(normalized)
    IN  IF Len(parts) >= 2 THEN parts[Len(parts)] ELSE normalized

\* the key names the keyboard library maps to scan codes (those of the model)
KnownKeys ==
    { <<"ctrl">>, <<"shift">>, <<"g">>, <<"t">> }

\* keyboard.add_hotkey(combo, ...) returns a handle: every part of the combo
\* is a known key name; otherwise it raises ValueError
Registrable(combo) ==
    LET parts == Split(combo)
    IN  \A i \in 1..Len(parts) : parts[i] \in KnownKeys

\* update_shortcuts, on the binding fields b; the result is the fields after it,
\* or as the exception of a failed add_hotkey leaves them (raised): the calls to
\* add_hotkey are not inside a try, so nothing after the failing call runs
UpdateShortcuts(b) ==
    LET h1 == IF b.swap_hook # 0 THEN Unhooked(b.hooks, b.swap_hook) ELSE b.hooks
        h2 == IF b.type_hook # 0 THEN Unhooked(h1, b.type_hook) ELSE h1
        h3 == IF b.ctrl_release_hook # 0 THEN Unhooked(h2, b.ctrl_release_hook) ELSE h2
        sw == IsBound(b.swap_hotkey)
        ns == Normalized(b.swap_hotkey)
        swRaises == sw /\ ~Registrable(ns)
        swDone == sw /\ Registrable(ns)
        h4 == IF swDone THEN WithHotkey(h3, ns, "on_swap_hotkey_pressed") ELSE h3
        ty == IsBound(b.type_hotkey)
        nt == Normalized(b.type_hotkey)
        tyRaises == ~swRaises /\ ty /\ ~Registrable(nt)
        tyDone == ~swRaises /\ ty /\ Registrable(nt)
        h5 == IF tyDone THEN WithHotkey(h4, nt, "on_type_hotkey_pressed") ELSE h4
    IN  [ hooks |-> h5,
          swap_hook |-> IF swDone THEN NewId(h3) ELSE 0,
          type_hook |-> IF tyDone THEN NewId(h4) ELSE 0,
          ctrl_release_hook |-> 0,
          swap_hotkey |-> b.swap_hotkey,
          type_hotkey |-> b.type_hotkey,
          swap_modifier |-> IF sw THEN ModifierOf(ns) ELSE b.swap_modifier,
          swap_key |-> IF sw THEN KeyOf(ns) ELSE b.swap_key,
          raised |-> swRaises \/ tyRaises ]

\* the binding fields as SmartClipUI.__init__ sets them before setup_shortcuts
InitialBinding ==
    [ hooks |-> {}, swap_hook |-> 0, type_hook |-> 0, ctrl_release_hook |-> 0,
      swap_hotkey |-> <<"ctrl", "+", "g">>, type_hotkey |-> <<>>,
      swap_modifier |-> <<"ctrl">>, swap_key |-> <<"g">> ]

\* the binding fields of the current state
Binding ==
    [ hooks |-> hooks, swap_hook |-> swap_hook, type_hook |-> type_hook,
      ctrl_release_hook |-> ctrl_release_hook, swap_hotkey |-> swap_hotkey,
      type_hotkey |-> type_hotkey, swap_modifier |-> swap_modifier,
      swap_key |-> swap_key ]

\* the primed binding fields are those of record b
BindingBecomes(b) ==
    /\ hooks' = b.hooks
    /\ swap_hook' = b.swap_hook
    /\ type_hook' = b.type_hook
    /\ ctrl_release_hook' = b.ctrl_release_hook
    /\ swap_hotkey' = b.swap_hotkey
    /\ type_hotkey' = b.type_hotkey
    /\ swap_modifier' = b.swap_modifier
    /\ swap_key' = b.swap_key

-----------------------------------------------------------------------------
(* The picker: ClipboardOverlay *)

\* self.overlay = None
NoOverlay ==
    [ obj |-> FALSE, visible |-> FALSE, items |-> <<>>, hidden |-> <<>>,
      currentRow |-> -1, search |-> <<>> ]

\* QWidget.close() on an overlay: the object and its rows are kept,
\* isVisible() becomes False
Closed(o) ==
    [o EXCEPT !.visible = FALSE]

\* a ClipboardOverlay whose populate_list sets no current row
NewOverlayNoCursor(items) ==
    [ obj |-> TRUE, visible |-> TRUE, items |-> items,
      hidden |-> [i \in 1..Len(items) |-> FALSE],
      currentRow |-> -1,
      search |-> <<>> ]

\* ClipboardOverlay(self, items) after setup_ui, populate_list and show():
\* one row per item, none hidden, current row 0 when there is a row
NewOverlay(items) ==
    [ obj |-> TRUE, visible |-> TRUE, items |-> items,
      hidden |-> [i \in 1..Len(items) |-> FALSE],
      currentRow |-> IF Len(items) > 0 THEN 0 ELSE -1,
      search |-> <<>> ]

\* the handlers' test without its isVisible() half
IsOpenObjectOnly(o) ==
    o.obj

\* `self.overlay and self.overlay.isVisible()`, the test of the handlers
IsOpen(o) ==
    o.obj /\ o.visible

\* the picker is on screen
OverlayVisible ==
    overlay.obj /\ overlay.visible

\* list_widget.count() of the overlay
Count(o) ==
    Len(o.items)

\* list_widget.currentItem() is not None
HasCurrent(o) ==
    o.currentRow >= 0 /\ o.currentRow < Count(o)

\* list_widget.currentItem().text()
CurrentText(o) ==
    o.items[o.currentRow + 1]

\* filter_list without the two lower() calls
HiddenForCaseSensitive(items, text) ==
    [i \in 1..Len(items) |-> ~Contains(items[i], text)]

\* ClipboardOverlay.filter_list: item.setHidden(text.lower() not in item.text().lower())
HiddenFor(items, text) ==
    [i \in 1..Len(items) |-> ~Contains(Lower(items[i]), Lower(text))]

\* cycle_next_item: (current_row + 1) % count()
NextRow(o) ==
    (o.currentRow + 1) % Count(o)

-----------------------------------------------------------------------------
(* Initial state: after SmartClipUI.__init__ *)

\* the histories an earlier run can have left in clipboard_history.json
\* (<<>>: no file, first run)
SavedHistories ==
    { h \in SeqsUpTo(ValidTexts, MaxStack) : NoDup(h) }

Init ==
    /\ \E saved \in SavedHistories, max \in 1..MaxStack :
          /\ Len(LoadedHistory(saved)) <= max
          /\ data_file = saved
          /\ list_widget = LoadedHistory(saved)
          /\ max_stack_size = max
    /\ clipboard = <<>>
    /\ dataChanged = 0
    /\ overlay = NoOverlay
    /\ LET b == UpdateShortcuts(InitialBinding)
       IN  /\ hooks = b.hooks
           /\ swap_hook = b.swap_hook
           /\ type_hook = b.type_hook
           /\ ctrl_release_hook = b.ctrl_release_hook
           /\ swap_hotkey = b.swap_hotkey
           /\ type_hotkey = b.type_hotkey
           /\ swap_modifier = b.swap_modifier
           /\ swap_key = b.swap_key
    /\ held = {}
    /\ running = TRUE
    /\ pressedOpen = <<>>
    /\ saveLog = [stale |-> FALSE, failed |-> FALSE]
    /\ posted = <<>>
    /\ pasteTimers = 0
    /\ sess = [state |-> "none", writes |-> 0, pastes |-> 0, late |-> FALSE]
    /\ relSincePress = FALSE
    /\ lastOp = "init"

-----------------------------------------------------------------------------
(* Clipboard *)

\* history only: the save log after an operation that changed the list or not,
\* attempted a save or not, and whose save succeeded or not
SaveLogged(log, changed, attempted, ok) ==
    IF attempted /\ ok THEN [stale |-> FALSE, failed |-> FALSE]
    ELSE [stale |-> log.stale \/ changed, failed |-> log.failed \/ attempted]

\* QClipboard.setText by this program: the text changes and dataChanged is
\* emitted.  Notifications beyond MaxPending are merged with the pending one:
\* the handler reads the clipboard when it runs, so a second delivery of the
\* same text stops at the "already at top" test.
AppSetText(text) ==
    /\ clipboard' = text
    /\ dataChanged' = Min(dataChanged + 1, MaxPending)

\* another application puts `text` on the clipboard
ExternalCopy(text) ==
    /\ running
    /\ dataChanged < MaxPending
    /\ clipboard' = text
    /\ dataChanged' = dataChanged + 1
    /\ lastOp' = "copy"
    /\ UNCHANGED <<storeVars, overlay, bindVars, held, running, pressedOpen, posted, pasteTimers, sess,
                   relSincePress>>

\* SmartClipUI.on_clipboard_changed, run by the event loop for one notification;
\* the write of the file can fail (the exception is caught and printed)
OnClipboardChanged ==
    /\ running
    /\ dataChanged > 0
    /\ dataChanged' = dataChanged - 1
    /\ list_widget' = Pushed(list_widget, clipboard, max_stack_size)
    /\ IF PushSaves(list_widget, clipboard)
       THEN \E ok \in BOOLEAN :
               /\ data_file' = IF ok THEN SavedHistory(list_widget', max_stack_size)
                               ELSE data_file
               /\ saveLog' = SaveLogged(saveLog, list_widget' # list_widget, TRUE, ok)
       ELSE /\ data_file' = data_file
            /\ saveLog' = SaveLogged(saveLog, list_widget' # list_widget, FALSE, FALSE)
    /\ lastOp' = PushKind(list_widget, clipboard)
    /\ UNCHANGED <<max_stack_size, clipboard, overlay, bindVars, held, running, pressedOpen, posted,
                   pasteTimers, sess, relSincePress>>

\* SmartClipUI.closeEvent: save_clipboard_history, then hide to the tray
CloseEvent ==
    /\ running
    /\ \E ok \in BOOLEAN :
          /\ data_file' = IF ok THEN SavedHistory(list_widget, max_stack_size)
                          ELSE data_file
          /\ saveLog' = SaveLogged(saveLog, FALSE, TRUE, ok)
    /\ lastOp' = "close"
    /\ UNCHANGED <<list_widget, max_stack_size, clipVars, overlay, bindVars, held, running, pressedOpen,
                   posted, pasteTimers, sess, relSincePress>>

-----------------------------------------------------------------------------
(* The keyboard and the hook thread *)

\* the modifier keys of the model's keyboard
ModifierKeys ==
    { <<"ctrl">> }

\* the modifier tokens of a registered combo: every part but the last
ModifiersOf(combo) ==
    LET parts == Split(combo)
    IN  { parts[i] : i \in 1..(Len(parts) - 1) }

\* start_modifier_release_listener: the first part of swap_modifier, or "ctrl"
PrimaryModifier ==
    IF swap_modifier # <<>> THEN Split(swap_modifier)[1] ELSE <<"ctrl">>

\* release callbacks put in front of what is already posted
RECURSIVE PostedAllInFront(_, _)
PostedAllInFront(queue, n) ==
    IF n = 0 THEN queue
    ELSE PostedAllInFront(<<"paste_and_close_overlay">> \o queue, n - 1)

\* the queue after n release hooks have each run on_modifier_released:
\* QTimer.singleShot(0, self.paste_and_close_overlay), n times
RECURSIVE PostedAll(_, _)
PostedAll(queue, n) ==
    IF n = 0 THEN queue
    ELSE PostedAll(Append(queue, "paste_and_close_overlay"), n - 1)

\* the user presses a modifier key
PressModifier(k) ==
    /\ running
    /\ k \notin held
    /\ held' = held \cup {k}
    /\ UNCHANGED <<storeVars, clipVars, overlay, bindVars, running, pressedOpen, posted, pasteTimers,
                   sess, relSincePress, lastOp>>

\* a release whose hook callback closes the picker itself, on the hook thread
ReleaseModifierClosing(k) ==
    LET watching == { h \in hooks : h.kind = "release" /\ h.key = k }
    IN  /\ running
        /\ k \in held
        /\ Len(posted) + Cardinality(watching) <= MaxPosted
        /\ held' = held \ {k}
        /\ posted' = PostedAll(posted, Cardinality(watching))
        /\ overlay' = IF watching # {} THEN Closed(overlay) ELSE overlay
        /\ relSincePress' = IF k = PrimaryModifier THEN TRUE ELSE relSincePress
        /\ UNCHANGED <<storeVars, clipVars, bindVars, running, pressedOpen,
                       pasteTimers, sess, lastOp>>

\* the user lets a modifier key go; every release hook on that key runs
\* on_modifier_released on the hook thread, which posts paste_and_close_overlay
ReleaseModifier(k) ==
    LET watching == { h \in hooks : h.kind = "release" /\ h.key = k }
    IN  /\ running
        /\ k \in held
        /\ Len(posted) + Cardinality(watching) <= MaxPosted
        /\ held' = held \ {k}
        /\ posted' = PostedAll(posted, Cardinality(watching))
        /\ relSincePress' = IF k = PrimaryModifier THEN TRUE ELSE relSincePress
        /\ UNCHANGED <<storeVars, clipVars, overlay, bindVars, running, pressedOpen, pasteTimers, sess,
                       lastOp>>

\* the user presses the key of a registered combo while its modifiers are down:
\* on_swap_hotkey_pressed posts handle_swap_hotkey
SwapHotkeyPressed ==
    /\ running
    /\ \E h \in hooks :
          /\ h.kind = "hotkey"
          /\ h.cb = "on_swap_hotkey_pressed"
          /\ ModifiersOf(h.key) \subseteq held
    /\ Len(posted) < MaxPosted
    /\ posted' = Append(posted, "handle_swap_hotkey")
    /\ pressedOpen' = Append(pressedOpen, OverlayVisible)
    /\ relSincePress' = FALSE
    /\ UNCHANGED <<storeVars, clipVars, overlay, bindVars, held, running, pasteTimers, sess,
                   lastOp>>

\* on_type_hotkey_pressed: prints, changes nothing
TypeHotkeyPressed ==
    /\ running
    /\ \E h \in hooks :
          /\ h.kind = "hotkey"
          /\ h.cb = "on_type_hotkey_pressed"
          /\ ModifiersOf(h.key) \subseteq held
    /\ UNCHANGED vars

-----------------------------------------------------------------------------
(* The event loop: posted callbacks *)

\* history only: how the session ended, as its first ending event has it
Ended(how) ==
    IF sess.state = "open" THEN how ELSE sess.state

\* start_modifier_release_listener without its "Remove existing hook if any"
ReleaseListenerStartedNoUnhook(hs, handle) ==
    [ hooks |-> WithReleaseHook(hs, PrimaryModifier, "on_modifier_released"),
      ctrl_release_hook |-> NewId(hs) ]

\* start_modifier_release_listener, on the hooks hs and the handle
ReleaseListenerStarted(hs, handle) ==
    LET h1 == IF handle # 0 THEN Unhooked(hs, handle) ELSE hs
    IN  [ hooks |-> WithReleaseHook(h1, PrimaryModifier, "on_modifier_released"),
          ctrl_release_hook |-> NewId(h1) ]

\* show_overlay: a new overlay over the items of the main list, then the
\* release listener
ShowOverlay ==
    LET r == ReleaseListenerStarted(hooks, ctrl_release_hook)
    IN  /\ overlay' = NewOverlay(list_widget)
        /\ hooks' = r.hooks
        /\ ctrl_release_hook' = r.ctrl_release_hook
        /\ sess' = [state |-> "open", writes |-> 0, pastes |-> 0, late |-> FALSE]
        /\ UNCHANGED <<swap_hotkey, type_hotkey, swap_modifier, swap_key, swap_hook,
                       type_hook>>

\* cycle_next_item that fills the picker again from the main list
CycleNextItemRefreshed ==
    /\ overlay' = IF IsOpen(overlay) /\ Count(overlay) > 0
                  THEN [NewOverlay(list_widget) EXCEPT
                            !.currentRow = (overlay.currentRow + 1) % Len(list_widget)]
                  ELSE overlay
    /\ UNCHANGED <<bindVars, sess>>

\* cycle_next_item divides by count(): ZeroDivisionError for a visible overlay
\* with no rows (the exception leaves a callback run by Qt, as in open_settings)
CycleRaises ==
    IsOpen(overlay) /\ Count(overlay) = 0

\* cycle_next_item: the overlay's current row moves on, modulo count()
CycleNextItem ==
    /\ overlay' = IF IsOpen(overlay) /\ Count(overlay) > 0
                  THEN [overlay EXCEPT !.currentRow = NextRow(overlay)]
                  ELSE overlay
    /\ UNCHANGED <<bindVars, sess>>

\* handle_swap_hotkey: show the overlay, or cycle when it is visible
HandleSwapHotkey ==
    /\ running
    /\ posted # <<>>
    /\ Head(posted) = "handle_swap_hotkey"
    /\ posted' = Tail(posted)
    /\ pressedOpen' = Tail(pressedOpen)
    /\ IF ~IsOpen(overlay) THEN ShowOverlay ELSE CycleNextItem
    /\ running' = ~CycleRaises
    /\ UNCHANGED <<storeVars, clipVars, held, pasteTimers, relSincePress, lastOp>>

\* paste_and_close_overlay: with a visible overlay and a current item, copy
\* its text, close the overlay, unhook the release hook, schedule the paste
PasteAndCloseOverlay ==
    /\ running
    /\ posted # <<>>
    /\ Head(posted) = "paste_and_close_overlay"
    /\ posted' = Tail(posted)
    /\ IF IsOpen(overlay) /\ HasCurrent(overlay)
       THEN /\ AppSetText(CurrentText(overlay))
            /\ overlay' = NoOverlay
            /\ hooks' = IF ctrl_release_hook # 0
                        THEN Unhooked(hooks, ctrl_release_hook) ELSE hooks
            /\ ctrl_release_hook' = 0
            /\ pasteTimers' = Min(pasteTimers + 1, MaxPaste)
            /\ sess' = [sess EXCEPT !.state = Ended("release"),
                                    !.writes = sess.writes + 1,
                                    !.pastes = sess.pastes + 1]
       ELSE /\ sess' = [sess EXCEPT !.late = sess.state \in {"accept", "cancel"}]
            /\ UNCHANGED <<clipVars, overlay, hooks, ctrl_release_hook, pasteTimers>>
    /\ UNCHANGED <<storeVars, swap_hotkey, type_hotkey, swap_modifier, swap_key,
                   swap_hook, type_hook, held, running, pressedOpen, relSincePress, lastOp>>

\* simulate_paste: keyboard.send("ctrl+v"); the focused application pastes
SimulatePaste ==
    /\ running
    /\ pasteTimers > 0
    /\ pasteTimers' = pasteTimers - 1
    /\ UNCHANGED <<storeVars, clipVars, overlay, bindVars, held, running, pressedOpen, posted, sess,
                   relSincePress, lastOp>>

-----------------------------------------------------------------------------
(* The event loop: the overlay's own events *)

\* a filter_list that also closes the picker
FilterListClosing(text) ==
    /\ running
    /\ OverlayVisible
    /\ text # overlay.search
    /\ overlay' = Closed([overlay EXCEPT !.search = text,
                                         !.hidden = HiddenFor(overlay.items, text)])
    /\ UNCHANGED <<storeVars, clipVars, bindVars, held, running, pressedOpen, posted,
                   pasteTimers, sess, relSincePress, lastOp>>

\* the search bar's textChanged: ClipboardOverlay.filter_list
FilterList(text) ==
    /\ running
    /\ OverlayVisible
    /\ text # overlay.search
    /\ overlay' = [overlay EXCEPT !.search = text,
                                  !.hidden = HiddenFor(overlay.items, text)]
    /\ UNCHANGED <<storeVars, clipVars, bindVars, held, running, pressedOpen, posted, pasteTimers, sess,
                   relSincePress, lastOp>>

\* on_item_selected without its close()
OnItemSelectedNoClose(row) ==
    /\ AppSetText(overlay.items[row + 1])
    /\ overlay' = overlay
    /\ sess' = [sess EXCEPT !.state = Ended("accept"), !.writes = sess.writes + 1]

\* ClipboardOverlay.on_item_selected: copy the item's text and close()
OnItemSelected(row) ==
    /\ AppSetText(overlay.items[row + 1])
    /\ overlay' = Closed(overlay)
    /\ sess' = [sess EXCEPT !.state = Ended("accept"), !.writes = sess.writes + 1]

\* keyPressEvent, Key_Escape: close()
KeyEscape ==
    /\ running
    /\ OverlayVisible
    /\ overlay' = Closed(overlay)
    /\ sess' = [sess EXCEPT !.state = Ended("cancel")]
    /\ UNCHANGED <<storeVars, clipVars, bindVars, held, running, pressedOpen, posted, pasteTimers,
                   relSincePress, lastOp>>

\* keyPressEvent, Key_Return / Key_Enter: on_item_selected(currentItem())
KeyReturn ==
    /\ running
    /\ OverlayVisible
    /\ IF HasCurrent(overlay)
       THEN OnItemSelected(overlay.currentRow)
       ELSE UNCHANGED <<clipVars, overlay, sess>>
    /\ UNCHANGED <<storeVars, bindVars, held, running, pressedOpen, posted, pasteTimers, relSincePress, lastOp>>

\* itemDoubleClicked on a row that is shown: on_item_selected(item)
ItemDoubleClicked(row) ==
    /\ running
    /\ OverlayVisible
    /\ row \in 0..(Count(overlay) - 1)
    /\ ~overlay.hidden[row + 1]
    /\ OnItemSelected(row)
    /\ UNCHANGED <<storeVars, bindVars, held, running, pressedOpen, posted, pasteTimers, relSincePress, lastOp>>

\* keyPressEvent, Key_Down: one row down unless on the last row
KeyDown ==
    /\ running
    /\ OverlayVisible
    /\ overlay.currentRow < Count(overlay) - 1
    /\ overlay' = [overlay EXCEPT !.currentRow = overlay.currentRow + 1]
    /\ UNCHANGED <<storeVars, clipVars, bindVars, held, running, pressedOpen, posted, pasteTimers, sess,
                   relSincePress, lastOp>>

\* keyPressEvent, Key_Up: one row up unless on the first row
KeyUp ==
    /\ running
    /\ OverlayVisible
    /\ overlay.currentRow > 0
    /\ overlay' = [overlay EXCEPT !.currentRow = overlay.currentRow - 1]
    /\ UNCHANGED <<storeVars, clipVars, bindVars, held, running, pressedOpen, posted, pasteTimers, sess,
                   relSincePress, lastOp>>

-----------------------------------------------------------------------------
(* The settings dialog *)

\* what the dialog shows for a hotkey: replace("+", " + ").title(), or "None"
Display(hotkey) ==
    IF hotkey # <<>>
    THEN LET d == SpacePlus(hotkey) IN [i \in 1..Len(d) |-> TitleChar(d[i])]
    ELSE <<"None">>

\* what open_settings stores for the text of a hotkey field
FromDialog(text) ==
    LET new == Strip(text)
    IN  IF Lower(new) # <<"none">> THEN Lower(RemoveSpaces(new)) ELSE <<>>

\* texts the user leaves or types in the swap hotkey field; "Hyper" is a key
\* name the keyboard library does not know
SwapTexts ==
    { Display(swap_hotkey), <<"Ctrl", " ", "+", " ", "G">>, <<"None">>,
      <<"Ctrl", "+", "Hyper">> }

\* texts the user leaves or types in the type hotkey field
TypeTexts ==
    { Display(type_hotkey), <<"None">>, <<" ", "ctrl", "+", "T">> }

\* open_settings with the dialog accepted: the hotkeys and the stack size are
\* stored, then update_shortcuts (the settings file is not modelled).  An
\* exception of update_shortcuts leaves open_settings, a slot called by Qt:
\* PyQt6 prints the traceback and ends the process with qFatal().
OpenSettings(swapText, typeText, size) ==
    /\ running
    /\ max_stack_size' = size
    /\ \E b \in { UpdateShortcuts(
                       [Binding EXCEPT !.swap_hotkey = FromDialog(swapText),
                                       !.type_hotkey = FromDialog(typeText)]) } :
          /\ BindingBecomes(b)
          /\ running' = ~b.raised
    /\ lastOp' = "open_settings"
    /\ UNCHANGED <<list_widget, data_file, saveLog, clipVars, overlay, held, posted,
                   pressedOpen, pasteTimers, sess, relSincePress>>

-----------------------------------------------------------------------------
(* Specification *)

Next ==
    \/ \E t \in Texts : ExternalCopy(t)
    \/ OnClipboardChanged
    \/ CloseEvent
    \/ \E k \in ModifierKeys : PressModifier(k)
    \/ \E k \in ModifierKeys : ReleaseModifier(k)
    \/ SwapHotkeyPressed
    \/ TypeHotkeyPressed
    \/ HandleSwapHotkey
    \/ PasteAndCloseOverlay
    \/ SimulatePaste
    \/ \E f \in Filters : FilterList(f)
    \/ KeyEscape
    \/ KeyReturn
    \/ \E r \in 0..(MaxStack - 1) : ItemDoubleClicked(r)
    \/ KeyDown
    \/ KeyUp
    \/ \E s \in SwapTexts, t \in TypeTexts, n \in 1..MaxStack : OpenSettings(s, t, n)

Spec ==
    Init /\ [][Next]_vars

\* The history list alone: clipboard changes from any source, the settings
\* dialog and the save on close.  Nothing else of Next writes list_widget,
\* max_stack_size or data_file, and ExternalCopy puts every text on the
\* clipboard that a commit of the picker can put there.
NextStore ==
    \/ \E t \in Texts : ExternalCopy(t)
    \/ OnClipboardChanged
    \/ CloseEvent
    \/ \E s \in SwapTexts, t \in TypeTexts, n \in 1..MaxStack : OpenSettings(s, t, n)

SpecStore ==
    Init /\ [][NextStore]_vars

\* The picker and the keyboard: one run of the program in which the history
\* list stays as loaded (every loaded history is an initial state) and the
\* settings stay as loaded.
NextSession ==
    \/ \E k \in ModifierKeys : PressModifier(k)
    \/ \E k \in ModifierKeys : ReleaseModifier(k)
    \/ SwapHotkeyPressed
    \/ HandleSwapHotkey
    \/ PasteAndCloseOverlay
    \/ SimulatePaste
    \/ \E f \in Filters : FilterList(f)
    \/ KeyEscape
    \/ KeyReturn
    \/ \E r \in 0..(MaxStack - 1) : ItemDoubleClicked(r)
    \/ KeyDown
    \/ KeyUp

SpecSession ==
    Init /\ [][NextSession]_vars

\* The picker while the clipboard changes: copies by other applications and
\* the program's own commits reach on_clipboard_changed while sessions are
\* opened, filtered, cycled, committed by release and cancelled.  It starts
\* from the first run (no history file, the dummy data) with room for one more
\* entry than the dummy data.
LiveTexts ==
    { <<"A">> }

LiveFilters ==
    { <<>>, <<"a">> }

InitLive ==
    /\ Init
    /\ data_file = <<>>
    /\ max_stack_size = Len(DummyItems) + 1

NextLive ==
    \/ \E t \in LiveTexts : ExternalCopy(t)
    \/ OnClipboardChanged
    \/ \E k \in ModifierKeys : PressModifier(k)
    \/ \E k \in ModifierKeys : ReleaseModifier(k)
    \/ SwapHotkeyPressed
    \/ HandleSwapHotkey
    \/ PasteAndCloseOverlay
    \/ \E f \in LiveFilters : FilterList(f)
    \/ KeyEscape

SpecLive ==
    InitLive /\ [][NextLive]_vars

\* The hotkey registrations: the settings dialog rebinds while sessions are
\* opened by the swap hotkey, committed by release or Enter and cancelled.
\* The run starts from the first run's history.
NextBinding ==
    \/ \E k \in ModifierKeys : PressModifier(k)
    \/ \E k \in ModifierKeys : ReleaseModifier(k)
    \/ SwapHotkeyPressed
    \/ TypeHotkeyPressed
    \/ HandleSwapHotkey
    \/ PasteAndCloseOverlay
    \/ KeyEscape
    \/ KeyReturn
    \/ \E s \in SwapTexts, t \in TypeTexts, n \in 1..MaxStack : OpenSettings(s, t, n)

SpecBinding ==
    InitLive /\ [][NextBinding]_vars

\* Commits and the pushes they cause: sessions opened by the swap hotkey and
\* committed by release, on_clipboard_changed for the texts they write, and
\* the settings dialog accepted with the hotkey fields as shown and any stack
\* size.  No other application copies, so every notification is a commit's.
NextCommit ==
    \/ \E k \in ModifierKeys : PressModifier(k)
    \/ \E k \in ModifierKeys : ReleaseModifier(k)
    \/ SwapHotkeyPressed
    \/ HandleSwapHotkey
    \/ PasteAndCloseOverlay
    \/ OnClipboardChanged
    \/ \E n \in 1..MaxStack :
          OpenSettings(Display(swap_hotkey), Display(type_hotkey), n)

SpecCommit ==
    InitLive /\ [][NextCommit]_vars

-----------------------------------------------------------------------------
(* Properties of the history list, checked under SpecStore *)

\* a step of on_clipboard_changed: the only action that consumes a notification
PushStep ==
    dataChanged' < dataChanged

\* 1-based position of text in list, 0 when absent
Position(list, text) ==
    IF \E i \in 1..Len(list) : list[i] = text
    THEN CHOOSE i \in 1..Len(list) :
             list[i] = text /\ \A j \in 1..(i - 1) : list[j] # text
    ELSE 0

\* list with the entry at position i moved to the front, the others in order
MovedToFront(list, i) ==
    <<list[i]>> \o SubSeq(list, 1, i - 1) \o SubSeq(list, i + 1, Len(list))

\* the first n entries of list (all of it when it is shorter)
FirstN(list, n) ==
    SubSeq(list, 1, Min(n, Len(list)))

\* C1: after loading the history and any pushes, no two entries of the
\* history list have equal text (exact comparison).
C1_Dedup ==
    NoDup(list_widget)

\* C1 witness: a push has just promoted an entry of a full three-entry list.
C1_Witness ==
    /\ lastOp = "push_promote"
    /\ Len(list_widget) = 3

\* C2: a push of a text found at a position i > 0 leaves the list equal to the
\* old one with that entry moved to the front: same length, the others in order.
C2_MoveToFront ==
    [][ (PushStep /\ Position(list_widget, clipboard) > 1)
          => list_widget' = MovedToFront(list_widget,
                                         Position(list_widget, clipboard)) ]_vars

\* C3: after every push returns the list is no longer than max_stack_size, and
\* what a push drops is dropped from the tail.
C3_BoundAfterPush ==
    [][ PushStep =>
          /\ Len(list_widget') <= max_stack_size'
          /\ \/ list_widget' = list_widget
             \/ /\ list_widget'[1] = clipboard
                /\ \E n \in 0..Len(list_widget) :
                      Tail(list_widget') =
                          FirstN(RemoveDuplicate(list_widget, clipboard), n) ]_vars

\* C4: when the settings dialog is accepted with stack size n, the list is at
\* once its first n entries (unchanged when it has no more than n).
C4_SetMaxTrims ==
    [][ lastOp' = "open_settings"
          => list_widget' = FirstN(list_widget, max_stack_size') ]_vars

-----------------------------------------------------------------------------
(* Properties of the picker, checked under SpecSession *)

\* the rows of the picker that are shown (0-based)
VisibleRows(o) ==
    { r \in 0..(Count(o) - 1) : ~o.hidden[r + 1] }

\* the filtered view: the texts of the shown rows, in row order
RECURSIVE ShownTexts(_, _)
ShownTexts(items, hidden) ==
    IF items = <<>> THEN <<>>
    ELSE IF Head(hidden) THEN ShownTexts(Tail(items), Tail(hidden))
    ELSE <<Head(items)>> \o ShownTexts(Tail(items), Tail(hidden))

FilteredView(o) ==
    ShownTexts(o.items, o.hidden)

\* f occurs in text as a substring, letter case ignored
MatchesFilter(text, f) ==
    \E k \in 0..(Len(text) - Len(f)) :
        \A j \in 1..Len(f) : LowerChar(text[k + j]) = LowerChar(f[j])

\* the snapshot entries that match f, in snapshot order
MatchingEntries(items, f) ==
    SelectSeq(items, LAMBDA t : MatchesFilter(t, f))

\* position of the current row within the filtered view (0-based)
FilteredIndex(o) ==
    Cardinality({ r \in VisibleRows(o) : r < o.currentRow })

\* the first shown row
FirstVisible(o) ==
    CHOOSE r \in VisibleRows(o) : \A q \in VisibleRows(o) : r <= q

\* the event loop runs handle_swap_hotkey while the picker is on screen
CycleStep ==
    /\ posted # <<>>
    /\ Head(posted) = "handle_swap_hotkey"
    /\ posted' = Tail(posted)
    /\ OverlayVisible

\* the event loop runs paste_and_close_overlay while the picker is on screen
ReleaseStep ==
    /\ posted # <<>>
    /\ Head(posted) = "paste_and_close_overlay"
    /\ posted' = Tail(posted)
    /\ OverlayVisible

\* the search text of the picker on screen changes
FilterStep ==
    /\ OverlayVisible
    /\ OverlayVisible'
    /\ overlay'.search # overlay.search

C5_Counts ==
    /\ sess.writes <= 1
    /\ sess.pastes <= 1
    /\ sess.state = "release" => (sess.writes = 1 /\ sess.pastes = 1)
    /\ sess.state = "accept" => (sess.writes = 1 /\ sess.pastes = 0)
    /\ sess.state \in {"none", "open", "cancel"} => (sess.writes = 0 /\ sess.pastes = 0)

\* C5, the steps: a release callback run for a picker on screen commits its
\* current entry and schedules the paste; an accept writes the accepted entry
\* and schedules nothing; only an open session writes or schedules, and the
\* step that does so takes the picker off screen.
C5_Step ==
    /\ ReleaseStep =>
          /\ sess'.state = "release"
          /\ clipboard' = CurrentText(overlay)
          /\ pasteTimers' >= 1
          /\ pasteTimers' >= pasteTimers
    /\ (sess.state = "open" /\ sess'.state = "accept") =>
          /\ clipboard' \in {CurrentText(overlay)}
                              \cup { overlay.items[r + 1] : r \in VisibleRows(overlay) }
          /\ pasteTimers' = pasteTimers
    /\ (sess'.writes > sess.writes \/ sess'.pastes > sess.pastes) =>
          /\ sess.state = "open"
          /\ OverlayVisible
          /\ ~OverlayVisible'

C6_ReleaseCommits ==
    (OverlayVisible /\ posted = <<>>) => ~relSincePress

\* C7: Escape ends the session with no clipboard write and no paste scheduled,
\* and as long as that session is the last one opened (no swap-hotkey callback
\* has opened another), nothing that runs afterwards, a release callback
\* included, writes the clipboard or schedules a paste.
C7_CancelWritesNever ==
    /\ [](sess.state = "cancel" =>
             (~OverlayVisible /\ sess.writes = 0 /\ sess.pastes = 0))
    /\ [][ sess'.state = "cancel" =>
             (clipboard' = clipboard /\ dataChanged' = dataChanged
                /\ pasteTimers' <= pasteTimers) ]_vars

\* C7 witness: a cancelled session, after which a release callback has run.
C7_Witness ==
    /\ sess.state = "cancel"
    /\ sess.late
    /\ posted = <<>>

\* C8: with N >= 1 entries in the filtered view and the cursor on one of them,
\* a cycle event moves the cursor to position (cursor + 1) mod N of the
\* filtered view.
C8_CycleWraps ==
    [][ (CycleStep /\ overlay.currentRow \in VisibleRows(overlay)) =>
          /\ overlay'.currentRow \in VisibleRows(overlay')
          /\ FilteredIndex(overlay') =
                 (FilteredIndex(overlay) + 1) % Cardinality(VisibleRows(overlay)) ]_vars

\* C9: the filtered view of the picker is the subsequence, in snapshot order,
\* of the snapshot entries that contain the search text, letter case ignored;
\* with an empty search text it is the whole snapshot.
C9_FilterCorrect ==
    OverlayVisible =>
        /\ FilteredView(overlay) = MatchingEntries(overlay.items, overlay.search)
        /\ overlay.search = <<>> => FilteredView(overlay) = overlay.items

\* C9 witness: a three-entry snapshot filtered by "bC" down to the entry "Bc".
C9_Witness ==
    /\ OverlayVisible
    /\ Len(overlay.items) = 3
    /\ overlay.search = <<"b", "C">>
    /\ FilteredView(overlay) = << <<"B", "c">> >>

\* C10: after a filter update the cursor is still on the same entry when that
\* entry matches the new filter, and on the first entry of the new filtered
\* view when it does not.
C10_FilterKeepsOrResetsCursor ==
    [][ FilterStep =>
          IF MatchesFilter(CurrentText(overlay), overlay'.search)
          THEN overlay'.currentRow = overlay.currentRow
          ELSE VisibleRows(overlay') # {} =>
                   overlay'.currentRow = FirstVisible(overlay') ]_vars

-----------------------------------------------------------------------------
(* Properties of the picker while the history changes, checked under SpecLive *)

\* the event loop runs handle_swap_hotkey
HandleStep ==
    /\ posted # <<>>
    /\ Head(posted) = "handle_swap_hotkey"
    /\ posted' = Tail(posted)

\* a release hook on the primary modifier is registered and is the one the
\* handle ctrl_release_hook names
WatchActive ==
    /\ ctrl_release_hook # 0
    /\ \E h \in hooks :
          /\ h.id = ctrl_release_hook
          /\ h.kind = "release"
          /\ h.key = PrimaryModifier

\* C11: while the picker is on screen, a push to the history list leaves the
\* picker's snapshot, shown rows, search text and current row as they are, and
\* a cycle leaves the snapshot, the shown rows and the search text as they are.
C11_SnapshotIsolation ==
    [][ /\ (PushStep /\ OverlayVisible) => overlay' = overlay
        /\ CycleStep =>
              /\ overlay'.items = overlay.items
              /\ overlay'.hidden = overlay.hidden
              /\ overlay'.search = overlay.search ]_vars

\* C11 witness: a picker on screen, filtered and cycled, whose snapshot differs
\* from the history list because a push has changed the list since.
C11_Witness ==
    /\ OverlayVisible
    /\ lastOp \in {"push_insert", "push_promote"}
    /\ overlay.items # list_widget
    /\ overlay.currentRow > 0
    /\ overlay.search # <<>>

-----------------------------------------------------------------------------
(* Properties of the posted callbacks, checked under SpecSession *)

\* queue q2 is queue q with callbacks added at its end
IsExtension(q, q2) ==
    /\ Len(q2) > Len(q)
    /\ SubSeq(q2, 1, Len(q)) = q

\* the event loop runs the callback at the head of the queue
ConsumeStep ==
    /\ posted # <<>>
    /\ posted' = Tail(posted)

\* C12: the callbacks posted by the hook thread run once each and in the order
\* posted: the queue changes only by a callback added at its end or by its head
\* being run; a swap callback that is run opens the picker or moves its current
\* row on, and a release callback run for a picker on screen commits the row
\* that is current then, after every swap callback posted before it.
C12_EventOrder ==
    [][ /\ posted' # posted => (ConsumeStep \/ IsExtension(posted, posted'))
        /\ HandleStep =>
              IF OverlayVisible
              THEN overlay' = [overlay EXCEPT !.currentRow = NextRow(overlay)]
              ELSE OverlayVisible' /\ overlay'.currentRow = 0
        /\ ReleaseStep =>
              /\ clipboard' = CurrentText(overlay)
              /\ \A i \in 1..Len(posted') : posted'[i] = posted[i + 1] ]_vars

\* C12 witness: a session opened by one press, cycled once by a second press
\* and committed by the release that followed: the second entry is on the
\* clipboard and nothing is left in the queue.
C12_Witness ==
    /\ sess.state = "release"
    /\ Len(list_widget) >= 2
    /\ clipboard = list_widget[2]
    /\ posted = <<>>
    /\ held = {}

-----------------------------------------------------------------------------
(* More properties of the history list, checked under SpecStore *)

\* text is empty or made of spaces only
IsBlank(text) ==
    \A i \in 1..Len(text) : text[i] = " "

\* C13: a push of the text that is at index 0 of a non-empty list leaves the
\* list and the history file as they are, and pushing any text a second time
\* gives the list that pushing it once gives.
C13_IdempotentTopPush ==
    /\ [][ (PushStep /\ Len(list_widget) > 0 /\ list_widget[1] = clipboard) =>
              (list_widget' = list_widget /\ data_file' = data_file) ]_vars
    /\ [](\A t \in ValidTexts :
             Pushed(Pushed(list_widget, t, max_stack_size), t, max_stack_size)
                 = Pushed(list_widget, t, max_stack_size))

\* C13 witness: the text at the top of a three-entry list has just been pushed.
C13_Witness ==
    /\ lastOp = "push_top"
    /\ Len(list_widget) = 3
    /\ clipboard = list_widget[1]

\* C14: a push of an empty or whitespace-only text leaves the list and the
\* history file as they are.
C14_BlankNeverPushed ==
    [][ (PushStep /\ IsBlank(clipboard)) =>
          (list_widget' = list_widget /\ data_file' = data_file) ]_vars

\* C14 witness: a text of one space has just been delivered to
\* on_clipboard_changed.
C14_Witness ==
    /\ lastOp = "push_blank"
    /\ clipboard = <<" ">>

\* C17: only a push changes the list; a push that changes it leaves it within
\* max_stack_size and saves it, and when that save succeeds the file holds
\* the list; at no time has the list changed since the last successful save
\* unless a save has failed since.
C17_PersistOnMutation ==
    /\ [][ list_widget' # list_widget =>
              /\ PushStep
              /\ Len(list_widget') <= max_stack_size'
              /\ IF saveLog'.failed THEN data_file' = data_file
                 ELSE data_file' = list_widget' ]_vars
    /\ [](saveLog.stale => saveLog.failed)

\* C17 witness: a push has promoted an entry of a three-entry list and its save
\* has written the new order to the file.
C17_Witness ==
    /\ lastOp = "push_promote"
    /\ ~saveLog.failed
    /\ Len(list_widget) = 3
    /\ data_file = list_widget

-----------------------------------------------------------------------------
(* Properties of the hotkey registrations *)

\* the registered listeners that call cb
ListenersOf(cb) ==
    { h \in hooks : h.cb = cb }

\* C15: when the settings dialog is accepted with a swap combo that add_hotkey
\* rejects, the program goes on running, no swap listener is registered and
\* swap_hook is None, the type hotkey is registered as configured, and the
\* history list and file are as before.  Checked under SpecStore.
C15_BindingFailureIsolated ==
    [][ ( /\ lastOp' = "open_settings"
          /\ IsBound(swap_hotkey')
          /\ ~Registrable(Normalized(swap_hotkey')) ) =>
          /\ running'
          /\ swap_hook' = 0
          /\ \A h \in hooks' : h.cb # "on_swap_hotkey_pressed"
          /\ IsBound(type_hotkey') =>
                \E h \in hooks' : /\ h.id = type_hook'
                                   /\ h.cb = "on_type_hotkey_pressed"
                                   /\ h.key = Normalized(type_hotkey')
          /\ list_widget' = list_widget
          /\ data_file' = data_file ]_vars

\* C16: at most one swap listener, one type listener and one release listener
\* are registered; every registered listener is the one its handle names and
\* every handle names a registered listener; the swap and type listeners are
\* for the configured combos; a hotkey set to "none" or "" has no listener.
\* Checked under SpecBinding.
C16_NoDanglingHooks ==
    /\ Cardinality(ListenersOf("on_swap_hotkey_pressed")) <= 1
    /\ Cardinality(ListenersOf("on_type_hotkey_pressed")) <= 1
    /\ Cardinality(ListenersOf("on_modifier_released")) <= 1
    /\ \A h \in hooks :
          /\ h.cb = "on_swap_hotkey_pressed" =>
                (h.id = swap_hook /\ h.kind = "hotkey"
                    /\ h.key = Normalized(swap_hotkey))
          /\ h.cb = "on_type_hotkey_pressed" =>
                (h.id = type_hook /\ h.kind = "hotkey"
                    /\ h.key = Normalized(type_hotkey))
          /\ h.cb = "on_modifier_released" =>
                (h.id = ctrl_release_hook /\ h.kind = "release")
    /\ \A n \in {swap_hook, type_hook, ctrl_release_hook} \ {0} :
          \E h \in hooks : h.id = n
    /\ ~IsBound(swap_hotkey) => ListenersOf("on_swap_hotkey_pressed") = {}
    /\ ~IsBound(type_hotkey) => ListenersOf("on_type_hotkey_pressed") = {}

\* C16 witness: after a session ended by Escape (its release listener left
\* registered) the settings dialog has set the swap hotkey to "None" and the
\* type hotkey to ctrl+t: the type listener is the only one registered.
C16_Witness ==
    /\ running
    /\ sess.state = "cancel"
    /\ swap_hotkey = <<>>
    /\ type_hotkey = <<"ctrl", "+", "t">>
    /\ Cardinality(hooks) = 1

-----------------------------------------------------------------------------
(* Properties of the session's start and end *)

\* C18: handle_swap_hotkey run with no picker on screen opens one over the
\* history list as it is then, with an empty search text, every row shown, the
\* current row 0 and the release listener registered on the swap hotkey's
\* modifier; run with a picker on screen it leaves that picker's rows, search
\* text and session as they are.  Checked under SpecLive.
C18_IdleToOpen ==
    [][ HandleStep =>
          IF ~OverlayVisible
          THEN /\ OverlayVisible'
               /\ overlay'.items = list_widget
               /\ overlay'.search = <<>>
               /\ VisibleRows(overlay') = 0..(Len(list_widget) - 1)
               /\ Len(list_widget) > 0 => overlay'.currentRow = 0
               /\ WatchActive'
               /\ sess'.state = "open"
          ELSE /\ OverlayVisible'
               /\ overlay'.items = overlay.items
               /\ overlay'.search = overlay.search
               /\ overlay'.hidden = overlay.hidden
               /\ sess' = sess ]_vars

\* C18 witness: a session just opened over a three-entry list that a push has
\* changed since the program started.
C18_Witness ==
    /\ OverlayVisible
    /\ sess.state = "open"
    /\ lastOp = "push_insert"
    /\ overlay.items = list_widget
    /\ Len(overlay.items) = 3
    /\ overlay.currentRow = 0
    /\ overlay.search = <<>>
    /\ posted = <<>>

\* the session ends by Enter or a double click
AcceptStep ==
    /\ sess.state = "open"
    /\ sess'.state = "accept"

\* C19: a release callback or an accept handled while the picker is on screen
\* takes the picker off screen and leaves no release listener registered; when
\* no row is shown it writes nothing to the clipboard and schedules no paste.
\* Checked under SpecSession.
C19_CommitEndsSession ==
    [][ (ReleaseStep \/ AcceptStep) =>
          /\ ~OverlayVisible'
          /\ ctrl_release_hook' = 0
          /\ \A h \in hooks' : h.kind # "release"
          /\ VisibleRows(overlay) = {} =>
                /\ clipboard' = clipboard
                /\ dataChanged' = dataChanged
                /\ pasteTimers' = pasteTimers ]_vars

\* C20: whenever no picker is on screen, no release listener is registered.
\* Checked under SpecSession.
C20_NoWatchWhenIdle ==
    ~OverlayVisible =>
        /\ ctrl_release_hook = 0
        /\ \A h \in hooks : h.kind # "release"

-----------------------------------------------------------------------------
(* Properties of the cursor, checked under SpecSession *)

\* C21: whenever the picker is on screen and shows at least one row, its
\* current row is one of the shown rows, so that a commit writes a text that
\* matches the search text.
C21_CursorInView ==
    (OverlayVisible /\ VisibleRows(overlay) # {}) =>
        overlay.currentRow \in VisibleRows(overlay)

\* C22: a swap callback run while the picker is on screen and shows no row
\* changes nothing of the picker, leaves it on screen and raises nothing.
C22_CycleOnEmptyView ==
    [][ (CycleStep /\ VisibleRows(overlay) = {}) =>
          /\ overlay' = overlay
          /\ sess' = sess
          /\ running' ]_vars

-----------------------------------------------------------------------------
(* Properties of the hook thread and the queue *)

\* the release callbacks waiting in the queue
PostedReleases ==
    { i \in 1..Len(posted) : posted[i] = "paste_and_close_overlay" }

\* C23: at most one release callback is waiting in the queue: the release
\* listener of one watch period posts once, however often the modifier goes
\* up before the event loop runs the first callback.  (A second watch period
\* starts only when the event loop runs handle_swap_hotkey, after every
\* release callback posted before it.)  Checked under SpecSession.
C23_ReleaseOncePerWatch ==
    Cardinality(PostedReleases) <= 1

\* a step of the hook thread or of the keyboard: a modifier goes down or up,
\* or callbacks are added to the queue
HookStep ==
    held' # held \/ IsExtension(posted, posted')

\* C24: a step in which a hook callback runs leaves the history list, its
\* file, the stack size, the picker, the session, the hotkey fields and
\* handles and the clipboard as they are, and adds one callback at the end of
\* the queue and nothing else.  Checked under SpecLive.
C24_HookOnlyEnqueues ==
    [][ HookStep =>
          /\ UNCHANGED <<list_widget, max_stack_size, data_file, overlay, bindVars,
                         clipboard, dataChanged, pasteTimers, running>>
          /\ sess' = sess
          /\ posted' = posted \/ IsExtension(posted, posted')
          /\ Len(posted') <= Len(posted) + 1 ]_vars

\* C24 witness: with the picker on screen a swap press and then a release
\* have each posted their callback; the picker is as it was.
C24_Witness ==
    /\ OverlayVisible
    /\ sess.state = "open"
    /\ posted = <<"handle_swap_hotkey", "paste_and_close_overlay">>
    /\ held = {}

\* C25: a swap callback posted while a picker was on screen and run when none
\* is on screen opens no picker, starts no release listener, writes nothing
\* to the clipboard and leaves the session as it ended.  Checked under
\* SpecSession.
C25_LateTriggerIgnored ==
    [][ (HandleStep /\ Head(pressedOpen) /\ ~OverlayVisible) =>
          /\ ~OverlayVisible'
          /\ sess' = sess
          /\ hooks' = hooks
          /\ ctrl_release_hook' = ctrl_release_hook
          /\ clipboard' = clipboard ]_vars

\* C26: the picker leaves the screen only in a step that runs a release
\* callback, an accept or Escape; pushes, filter updates, cycles and key
\* presses leave it on screen.  Checked under SpecLive.
C26_NoSpontaneousClose ==
    [][ (OverlayVisible /\ ~OverlayVisible') =>
          \/ ReleaseStep
          \/ AcceptStep
          \/ (sess.state = "open" /\ sess'.state = "cancel") ]_vars

\* C26 witness: a picker still on screen, the modifier held, after it was
\* cycled and filtered and a push changed the history list.
C26_Witness ==
    /\ OverlayVisible
    /\ sess.state = "open"
    /\ held = {<<"ctrl">>}
    /\ posted = <<>>
    /\ dataChanged = 0
    /\ overlay.currentRow > 0
    /\ overlay.search = <<"a">>
    /\ lastOp = "push_insert"

\* C27: whenever the program runs and the picker is on screen, the release
\* listener named by ctrl_release_hook is registered.  Checked under
\* SpecBinding.
C27_OpenImpliesWatching ==
    (running /\ OverlayVisible) =>
        /\ ctrl_release_hook # 0
        /\ \E h \in hooks : h.id = ctrl_release_hook /\ h.kind = "release"

\* C28: when on_clipboard_changed has run for the text t a commit wrote, t is
\* at index 0, the list has no duplicates and at most max_stack_size entries,
\* and when t was in the list the list is the old one with t moved to the
\* front (unchanged when t was at index 0).  Checked under SpecCommit, where
\* every notification comes from a commit.
C28_CommitPromotes ==
    [][ PushStep =>
          /\ list_widget'[1] = clipboard
          /\ NoDup(list_widget')
          /\ Len(list_widget') <= max_stack_size'
          /\ Position(list_widget, clipboard) > 0 =>
                list_widget' = MovedToFront(list_widget,
                                            Position(list_widget, clipboard)) ]_vars

====
